---- MODULE Spec2Model ----
(***************************************************************************)
(* A model of two parts of avogadrolibs:                                   *)
(*   - Core::BiMap (src/avogadro/core/bimap.cpp), the element <-> group    *)
(*     map that tracks connected fragments;                                *)
(*   - the undo commands of QtGui::RWMolecule                              *)
(*     (src/avogadro/qtgui/rwmolecule.inl) acting on the molecule's        *)
(*     columns, together with the undo stack that runs them.               *)
(***************************************************************************)
EXTENDS Integers, Sequences, FiniteSets, TLC

\* ------------------------------------------------------------------ bounds
\* Element ids handed to the BiMap are 0 .. MaxElem-1.
MaxElem == 4
\* Cap on the length of m_groupToElement (the code never frees a slot on
\* removal, so the vector can grow without limit): a call that would make
\* it longer is not taken.
MaxGroups == 4

\* Number of BiMap calls made after construction.
MaxCalls == 5
\* Number of RWMolecule operations that run a command (edits, undo, redo).
MaxOps == 6
\* Cap on the number of atoms and on the number of bonds.
MaxAtoms == 3
MaxBonds == 2
\* Coordinates are 0 .. MaxCoord; 0 stands for Vector3::Zero().
MaxCoord == 2

Elems == 0 .. (MaxElem - 1)

VARIABLES
  m_elementToGroup,   \* std::map<size_t,size_t>: a function on the known keys
  m_groupToElement,   \* std::vector<std::set<size_t>>: group g is m_groupToElement[g+1]
  fault,              \* "none", "assert" (a failed assert aborted), "ub" (undefined behaviour happened)
  call,               \* history: the last BiMap call and its arguments
  edges,              \* history: the edges {a,b} of the graph connected so far
  ncalls,             \* history: the number of calls made
  m_molecule,         \* QtGui::Molecule: the columns the undo commands reach
  m_undoStack,        \* the undo stack: its commands and its cursor
  m_interactive,      \* RWMolecule's interactive-session flag
  hist,               \* history: the last operation and the molecule before it
  drag                \* history: the current run of interactive position edits

bmVars == <<m_elementToGroup, m_groupToElement, call, edges>>

rwVars == <<m_molecule, m_undoStack, m_interactive, hist, drag>>

vars == <<m_elementToGroup, m_groupToElement, fault, call, edges, ncalls,
          m_molecule, m_undoStack, m_interactive, hist, drag>>

\* ------------------------------------------------------- std::map / vector
\* m[k] = v of std::map (inserts the key when it is missing).
MapSet(m, k, v) == [x \in (DOMAIN m) \cup {k} |-> IF x = k THEN v ELSE m[x]]

\* m.erase(k) of std::map (no effect when k is no key).
MapErase(m, k) == [x \in (DOMAIN m) \ {k} |-> m[x]]

\* The map after evaluating m[k] as an rvalue: std::map::operator[] inserts a
\* value-initialised entry (0) when k is no key.
MapTouch(m, k) == IF k \in DOMAIN m THEN m ELSE MapSet(m, k, 0)

\* v.erase(v.begin() + i) of std::vector, i counted from 0.
EraseAt(v, i) == [j \in 1 .. (Len(v) - 1) |-> IF j <= i THEN v[j] ELSE v[j + 1]]

\* The BiMap as a value: the two containers, and whether an out-of-range
\* vector access has happened while computing it.
BM(e2g, g2e, ub) == [e2g |-> e2g, g2e |-> g2e, ub |-> ub]

CurBM == BM(m_elementToGroup, m_groupToElement, FALSE)

\* ------------------------------------------------------------ BiMap methods
\* BiMap::resetToSize(n) on a map whose vector holds n (empty) slots.
ResetToSize(n) ==
  BM([i \in 0 .. (n - 1) |-> i], [j \in 1 .. n |-> {j - 1}], FALSE)

\* BiMap::clear()
ClearBM(bm) == BM(<<>>, <<>>, bm.ub)

\* BiMap::resetToSize(n) on the containers as they are: m_groupToElement[i]
\* is indexed without a bound check, slots are never created here.
ResetToSizeBM(bm, n) ==
  IF n > Len(bm.g2e) THEN [bm EXCEPT !.ub = TRUE]
  ELSE BM([e \in DOMAIN bm.e2g \cup 0 .. (n - 1) |->
             IF e < n THEN e ELSE bm.e2g[e]],
          [j \in 1 .. Len(bm.g2e) |->
             IF j <= n THEN bm.g2e[j] \cup {j - 1} ELSE bm.g2e[j]],
          bm.ub)

\* BiMap::removeConections()
RemoveConectionsBM(bm) ==
  ResetToSizeBM(ClearBM(bm), Cardinality(DOMAIN bm.e2g))

\* BiMap::addElement(index)
AddElementBM(bm, index) ==
  BM(MapSet(bm.e2g, index, Len(bm.g2e)), Append(bm.g2e, {index}), bm.ub)

\* BiMap::addConection(a, b), after its two asserts.
AddConectionBM(bm, a, b) ==
  LET group_a == bm.e2g[a]
      group_b == bm.e2g[b]
      n == Len(bm.g2e)
  IN IF group_a = group_b THEN bm
     ELSE IF group_b >= n THEN [bm EXCEPT !.ub = TRUE]
     ELSE LET moved == bm.g2e[group_b + 1]
          IN IF moved # {} /\ group_a >= n THEN [bm EXCEPT !.ub = TRUE]
             ELSE LET e2g == [x \in (DOMAIN bm.e2g) \cup moved |->
                                IF x \in moved THEN group_a ELSE bm.e2g[x]]
                      g2e == IF moved = {} THEN bm.g2e
                             ELSE [bm.g2e EXCEPT ![group_a + 1] = @ \cup moved]
                  IN BM(e2g, EraseAt(g2e, group_b), bm.ub)

\* BiMap::removeConection(size_t index), after its assert.
RemoveConectionBM(bm, index) ==
  LET e2g == MapTouch(bm.e2g, index)
      group == e2g[index]
  IN IF group >= Len(bm.g2e) THEN [bm EXCEPT !.ub = TRUE]
     ELSE IF Cardinality(bm.g2e[group + 1]) > 1
          THEN AddElementBM(
                 BM(e2g, [bm.g2e EXCEPT ![group + 1] = @ \ {index}], bm.ub),
                 index)
          ELSE BM(e2g, bm.g2e, bm.ub)

\* BiMap::removeElement(index), after its assert.
RemoveElementBM(bm, index) ==
  LET b1 == RemoveConectionBM(bm, index)
  IN IF b1.ub THEN b1
     ELSE LET group == b1.e2g[index]
          IN [b1 EXCEPT !.e2g = MapErase(b1.e2g, group)]

\* The body of the loop of removeConection(a, a_neighbors, b, b_neighbors)
\* for the neighbour n: n leaves the set its entry names and joins `group`.
MigrateBM(bm, group, n) ==
  LET e2g == MapTouch(bm.e2g, n)
      oldGroup == e2g[n]
  IN IF oldGroup >= Len(bm.g2e) \/ group >= Len(bm.g2e)
     THEN [bm EXCEPT !.ub = TRUE]
     ELSE BM(MapSet(e2g, n, group),
             [[bm.g2e EXCEPT ![oldGroup + 1] = @ \ {n}]
                EXCEPT ![group + 1] = @ \cup {n}],
             bm.ub)

\* The loop over the sorted a_neighbors.
RECURSIVE MigrateAllBM(_, _, _)
MigrateAllBM(bm, group, neighbors) ==
  IF neighbors = {} \/ bm.ub THEN bm
  ELSE LET n == CHOOSE x \in neighbors : \A y \in neighbors : x <= y
       IN MigrateAllBM(MigrateBM(bm, group, n), group, neighbors \ {n})

\* The neighbour-intersection hook as it would be without the test of the
\* intersection: C11 fails.
RemoveConectionHookAlways(bm, a, a_neighbors, b, b_neighbors) ==
  LET b1 == RemoveConectionBM(bm, a)
  IN IF b1.ub THEN b1 ELSE MigrateAllBM(b1, b1.e2g[a], a_neighbors)

\* removeConection(a, a_neighbors, b, b_neighbors) after its asserts; the
\* neighbour vectors are taken as sets (they are sorted and only tested for a
\* common element and iterated).
RemoveConectionHookBM(bm, a, a_neighbors, b, b_neighbors) ==
  IF a_neighbors \cap b_neighbors # {} THEN bm
  ELSE LET b1 == RemoveConectionBM(bm, a)
       IN IF b1.ub THEN b1 ELSE MigrateAllBM(b1, b1.e2g[a], a_neighbors)

\* BiMap::getGroup(element)
getGroup(element) == m_elementToGroup[element]

\* BiMap::getElements(group)
getElements(group) == m_groupToElement[group + 1]

\* BiMap::getAllGroups()
getAllGroups == m_groupToElement

\* ------------------------------------------------------------- the molecule
\* The invalid sentinel of Index: the largest value of the unsigned type,
\* above every index the bounds allow.
MaxIndex == 255

\* Vector3::Zero()
Zero == 0

Coords == 0 .. MaxCoord

AtomicNums == {1, 6}

MaxCharge == 1

Charges == 0 .. MaxCharge

BondOrders == {1}

MaxOrder == 2

\* The bond orders the bond-order edits write.
EditOrders == 1 .. MaxOrder

\* Index arithmetic is unsigned: 0 - 1 is the largest value.
Dec(n) == IF n = 0 THEN MaxIndex ELSE n - 1

\* The molecule before any edit.  born is history: born[p+1] is the UniqueId
\* that was allocated when the atom now at position p was created.
EmptyMol ==
  [atomicNumbers |-> <<>>, positions3d |-> <<>>, atomUniqueIds |-> <<>>,
   bondPairs |-> <<>>, bondOrders |-> <<>>, bondUniqueIds |-> <<>>,
   formalCharges |-> <<>>, born |-> <<>>]

atomCount(m) == Len(m.atomicNumbers)

bondCount(m) == Len(m.bondOrders)

\* The result of running code on a molecule: the molecule, whether an
\* out-of-range access happened (ub) and whether an assert failed (af).
Ok(m) == [m |-> m, ub |-> FALSE, af |-> FALSE]

Ub(m) == [m |-> m, ub |-> TRUE, af |-> FALSE]

Af(w) == [w EXCEPT !.af = TRUE]

\* v.resize(n) of an Array that is not shorter than n.
Truncate(v, n) == SubSeq(v, 1, n)

\* swap(v[i], v[j]), i and j counted from 0.
Swap(v, i, j) == [v EXCEPT ![i + 1] = v[j + 1], ![j + 1] = v[i + 1]]

\* Molecule::findAtomUniqueId / findBondUniqueId: the first UniqueId bound
\* to the position, MaxIndex when there is none.
FindUniqueId(table, pos) ==
  LET S == {u \in 1 .. Len(table) : table[u] = pos}
  IN IF S = {} THEN MaxIndex
     ELSE (CHOOSE u \in S : \A v \in S : u <= v) - 1

\* The bonds of an atom: the positions of the bond pairs that name it.
bonds(m, atom) ==
  {b \in 0 .. (bondCount(m) - 1) :
     m.bondPairs[b + 1][1] = atom \/ m.bondPairs[b + 1][2] = atom}

\* No endpoint rewrite: the pair is left as it is.
RewriteNothing(pair, from, to) == pair

\* The endpoint rewrite of RemoveAtomCommand::redo and ::undo on one pair.
Rewrite(pair, from, to) ==
  IF pair[1] = from THEN <<to, pair[2]>> ELSE <<pair[1], to>>

\* The bond pairs with every bond of atom `from` rewritten to `to`.
RewriteBonds(m, from, to) ==
  [b \in 1 .. Len(m.bondPairs) |->
     IF (b - 1) \in bonds(m, from) THEN Rewrite(m.bondPairs[b], from, to)
     ELSE m.bondPairs[b]]

\* makeBondPair(a, b): the lower index first.
makeBondPair(a, b) == IF a < b THEN <<a, b>> ELSE <<b, a>>

\* Insertion of an atom: an append, and a fresh UniqueId bound to the new
\* last position.
MolAddAtom(m, number) ==
  [m EXCEPT !.atomicNumbers = Append(@, number),
            !.atomUniqueIds = Append(@, atomCount(m)),
            !.born = Append(@, Len(m.atomUniqueIds))]

\* Removal of the atom at position index by compaction.
MolRemoveAtom(m, index) ==
  LET uid == FindUniqueId(m.atomUniqueIds, index)
      last == atomCount(m) - 1
      full == Len(m.positions3d) = atomCount(m)
  IN IF index >= atomCount(m) \/ uid = MaxIndex THEN m
     ELSE LET u1 == [m.atomUniqueIds EXCEPT ![uid + 1] = MaxIndex]
              movedUid == FindUniqueId(u1, last)
              moving == index # last
          IN [m EXCEPT
                !.atomicNumbers =
                  Truncate(IF moving THEN [@ EXCEPT ![index + 1] = m.atomicNumbers[last + 1]] ELSE @, last),
                !.born =
                  Truncate(IF moving THEN [@ EXCEPT ![index + 1] = m.born[last + 1]] ELSE @, last),
                !.positions3d =
                  IF full
                  THEN Truncate(IF moving THEN [@ EXCEPT ![index + 1] = m.positions3d[last + 1]] ELSE @, last)
                  ELSE @,
                !.formalCharges =
                  IF Len(m.formalCharges) = atomCount(m)
                  THEN Truncate(IF moving THEN [@ EXCEPT ![index + 1] = m.formalCharges[last + 1]] ELSE @, last)
                  ELSE @,
                !.bondPairs = IF moving THEN RewriteBonds(m, last, index) ELSE @,
                !.atomUniqueIds =
                  IF moving /\ movedUid # MaxIndex
                  THEN [u1 EXCEPT ![movedUid + 1] = index] ELSE u1]

\* Insertion of a bond: the pair normalised, an append, and a fresh UniqueId.
MolAddBond(m, a, b, order) ==
  [m EXCEPT !.bondPairs = Append(@, makeBondPair(a, b)),
            !.bondOrders = Append(@, order),
            !.bondUniqueIds = Append(@, bondCount(m))]

\* Removal of the bond at position index by compaction.
MolRemoveBond(m, index) ==
  LET uid == FindUniqueId(m.bondUniqueIds, index)
      last == bondCount(m) - 1
  IN IF index >= bondCount(m) \/ uid = MaxIndex THEN m
     ELSE LET u1 == [m.bondUniqueIds EXCEPT ![uid + 1] = MaxIndex]
              movedUid == FindUniqueId(u1, last)
              moving == index # last
          IN [m EXCEPT
                !.bondPairs =
                  Truncate(IF moving THEN [@ EXCEPT ![index + 1] = m.bondPairs[last + 1]] ELSE @, last),
                !.bondOrders =
                  Truncate(IF moving THEN [@ EXCEPT ![index + 1] = m.bondOrders[last + 1]] ELSE @, last),
                !.bondUniqueIds =
                  IF moving /\ movedUid # MaxIndex
                  THEN [u1 EXCEPT ![movedUid + 1] = index] ELSE u1]

\* Molecule::atomPosition3d(atomId): zero when the column is not that long.
atomPosition3d(m, atomId) ==
  IF atomId < Len(m.positions3d) THEN m.positions3d[atomId + 1] ELSE Zero

\* ------------------------------------------------------------- the commands
\* AddAtomCommand::redo
AddAtomRedo(c, m) ==
  LET m1 == MolAddAtom(m, c.atomicNumber)
      m2 == IF c.usingPositions
            THEN [m1 EXCEPT !.positions3d = Append(@, Zero)] ELSE m1
  IN [m |-> m2, ub |-> FALSE, af |-> atomCount(m) # c.atomId]

\* AddAtomCommand::undo
AddAtomUndo(c, m) ==
  [m |-> MolRemoveAtom(m, c.atomId), ub |-> FALSE,
   af |-> atomCount(m) # c.atomId + 1]

\* RemoveAtomCommand::redo as it would be without the loop that rewrites the
\* bond pairs of the moved atom: what C7 says of the bond endpoints fails.
RemoveAtomRedoKeepingBondPairs(c, m) ==
  LET n == atomCount(m)
      full == Len(m.positions3d) = n
      movedId == Dec(n)
      u1 == [m.atomUniqueIds EXCEPT ![c.atomUid + 1] = MaxIndex]
      movedUid == FindUniqueId(u1, movedId)
      moving == c.atomId # movedId
      Column(v) == Truncate(IF moving THEN [v EXCEPT ![c.atomId + 1] = v[n]] ELSE v,
                            movedId)
  IN IF ~(c.atomUid < Len(m.atomUniqueIds)) THEN Af(Ub(m))
     ELSE IF moving /\ (n = 0 \/ c.atomId >= n) THEN Ub(m)
     ELSE IF moving /\ movedUid = MaxIndex THEN Af(Ub(m))
     ELSE Ok([m EXCEPT
                !.atomicNumbers = Column(@),
                !.born = Column(@),
                !.positions3d = IF full THEN Column(@) ELSE @,
                !.atomUniqueIds =
                  IF moving THEN [u1 EXCEPT ![movedUid + 1] = c.atomId] ELSE u1])

\* RemoveAtomCommand::redo
RemoveAtomRedo(c, m) ==
  LET n == atomCount(m)
      full == Len(m.positions3d) = n
      movedId == Dec(n)
      u1 == [m.atomUniqueIds EXCEPT ![c.atomUid + 1] = MaxIndex]
      movedUid == FindUniqueId(u1, movedId)
  IN IF ~(c.atomUid < Len(m.atomUniqueIds)) THEN Af(Ub(m))
     ELSE IF c.atomId = movedId
     THEN Ok([m EXCEPT !.atomUniqueIds = u1,
                       !.positions3d = IF full THEN Truncate(@, movedId) ELSE @,
                       !.atomicNumbers = Truncate(@, movedId),
                       !.born = Truncate(@, movedId)])
     ELSE IF n = 0 \/ c.atomId >= n THEN Ub(m)
     ELSE IF movedUid = MaxIndex THEN Af(Ub(m))
     ELSE Ok([m EXCEPT
                !.atomicNumbers = Truncate([@ EXCEPT ![c.atomId + 1] = m.atomicNumbers[n]], movedId),
                !.born = Truncate([@ EXCEPT ![c.atomId + 1] = m.born[n]], movedId),
                !.positions3d =
                  IF full THEN Truncate([@ EXCEPT ![c.atomId + 1] = m.positions3d[n]], movedId)
                  ELSE @,
                !.bondPairs = RewriteBonds(m, movedId, c.atomId),
                !.atomUniqueIds = [u1 EXCEPT ![movedUid + 1] = c.atomId]])

\* RemoveAtomCommand::undo
RemoveAtomUndo(c, m) ==
  LET full == Len(m.positions3d) = atomCount(m)
      m1 == [m EXCEPT !.positions3d = IF full THEN Append(@, c.position3d) ELSE @,
                      !.atomicNumbers = Append(@, c.atomicNumber),
                      !.born = Append(@, c.born)]
      movedId == atomCount(m1) - 1
      movedUid == FindUniqueId(m1.atomUniqueIds, c.atomId)
      m2 == IF c.atomId = movedId THEN m1
            ELSE [m1 EXCEPT
                    !.positions3d = IF full THEN Swap(@, c.atomId, movedId) ELSE @,
                    !.atomicNumbers = Swap(@, c.atomId, movedId),
                    !.born = Swap(@, c.atomId, movedId),
                    !.bondPairs = RewriteBonds(m1, c.atomId, movedId),
                    !.atomUniqueIds = [@ EXCEPT ![movedUid + 1] = movedId]]
  IN IF c.atomId > movedId THEN Ub(m)
     ELSE IF c.atomId # movedId /\ movedUid = MaxIndex THEN Af(Ub(m))
     ELSE IF ~(c.atomUid < Len(m.atomUniqueIds)) THEN Ub(m)
     ELSE Ok([m2 EXCEPT !.atomUniqueIds[c.atomUid + 1] = c.atomId])

\* SetPosition3dCommand::redo (values = m_newPosition3ds) and ::undo
\* (values = m_oldPosition3ds): the loop over m_atomIds from i on.
RECURSIVE SetPosition3dLoop(_, _, _, _)
SetPosition3dLoop(c, values, i, w) ==
  IF i > Len(c.atomIds) \/ w.ub THEN w
  ELSE IF c.atomIds[i] >= Len(w.m.positions3d) THEN Ub(w.m)
  ELSE SetPosition3dLoop(c, values, i + 1,
         Ok([w.m EXCEPT !.positions3d[c.atomIds[i] + 1] = values[i]]))

\* A search that never finds the atom.
FindOffsetNever(ids, atomId) == 0

\* The offset of atomId in ids (std::find), 0 when it is not there.
FindOffset(ids, atomId) ==
  LET S == {i \in 1 .. Len(ids) : ids[i] = atomId}
  IN IF S = {} THEN 0 ELSE CHOOSE i \in S : \A j \in S : i <= j

\* SetPosition3dCommand::mergeWith: the loop over the other command's atoms
\* from i on.
RECURSIVE MergePositions(_, _, _)
MergePositions(this, other, i) ==
  IF i > Len(other.atomIds) THEN this
  ELSE LET atomId == other.atomIds[i]
           offset == FindOffset(this.atomIds, atomId)
       IN MergePositions(
            IF offset = 0
            THEN [this EXCEPT !.atomIds = Append(@, atomId),
                              !.oldPosition3ds = Append(@, other.oldPosition3ds[i]),
                              !.newPosition3ds = Append(@, other.newPosition3ds[i])]
            ELSE [this EXCEPT !.newPosition3ds[offset] = other.newPosition3ds[i]],
            other, i + 1)

\* AddBondCommand::redo
AddBondRedo(c, m) ==
  [m |-> MolAddBond(m, c.bondPair[1], c.bondPair[2], c.bondOrder),
   ub |-> FALSE, af |-> bondCount(m) # c.bondId]

\* AddBondCommand::undo
AddBondUndo(c, m) ==
  [m |-> MolRemoveBond(m, c.bondId), ub |-> FALSE,
   af |-> bondCount(m) # c.bondId + 1]

\* RemoveBondCommand::redo
RemoveBondRedo(c, m) == Ok(MolRemoveBond(m, c.bondId))

\* RemoveBondCommand::undo
RemoveBondUndo(c, m) ==
  Ok(MolAddBond(m, c.bondPair[1], c.bondPair[2], c.bondOrder))

\* Molecule::setBondOrder(bondId, order): nothing for a bond that is not
\* there.
MolSetBondOrder(m, bondId, order) ==
  IF bondId < bondCount(m) THEN [m EXCEPT !.bondOrders[bondId + 1] = order]
  ELSE m

\* SetBondOrderCommand::redo and ::undo
SetBondOrder(c, order, m) == Ok(MolSetBondOrder(m, c.bondId, order))

\* The merge ids of the enum MergeIds.
SetPosition3dMergeId == 1

SetBondOrderMergeId == 3

\* An id() that does not look at m_canMerge.
CommandIdIgnoringCanMerge(c) ==
  IF c.kind = "SetPosition3d" THEN SetPosition3dMergeId ELSE -1

\* MergeUndoCommand::id(); a command that is no MergeUndoCommand has id -1.
CommandId(c) ==
  IF c.kind = "SetPosition3d" /\ c.canMerge THEN SetPosition3dMergeId
  ELSE IF c.kind = "SetBondOrder" /\ c.canMerge THEN SetBondOrderMergeId
  ELSE -1

\* A mergeWith of SetBondOrderCommand that does not compare the bondIds.
MergeWithAnyBond(this, other) ==
  IF this.kind = "SetBondOrder"
  THEN [ok |-> TRUE, cmd |-> [this EXCEPT !.newBondOrder = other.newBondOrder]]
  ELSE [ok |-> TRUE, cmd |-> MergePositions(this, other, 1)]

\* this->mergeWith(other) for two commands of one merge id: whether the
\* merge was made, and the command after it.
MergeWith(this, other) ==
  IF this.kind = "SetBondOrder"
  THEN IF other.bondId = this.bondId
       THEN [ok |-> TRUE, cmd |-> [this EXCEPT !.newBondOrder = other.newBondOrder]]
       ELSE [ok |-> FALSE, cmd |-> this]
  ELSE [ok |-> TRUE, cmd |-> MergePositions(this, other, 1)]

\* SetAtomFormalChargeCommand::redo and ::undo: formalCharges()[m_atomId] is
\* written without a bound check.
SetAtomFormalCharge(c, charge, m) ==
  IF c.atomId >= Len(m.formalCharges) THEN Ub(m)
  ELSE Ok([m EXCEPT !.formalCharges[c.atomId + 1] = charge])

\* redo() of a command.
Redo(c, m) ==
  CASE c.kind = "AddAtom" -> AddAtomRedo(c, m)
    [] c.kind = "RemoveAtom" -> RemoveAtomRedo(c, m)
    [] c.kind = "SetPosition3d" -> SetPosition3dLoop(c, c.newPosition3ds, 1, Ok(m))
    [] c.kind = "AddBond" -> AddBondRedo(c, m)
    [] c.kind = "RemoveBond" -> RemoveBondRedo(c, m)
    [] c.kind = "SetAtomFormalCharge" -> SetAtomFormalCharge(c, c.newCharge, m)
    [] c.kind = "SetBondOrder" -> SetBondOrder(c, c.newBondOrder, m)

\* undo() of a command.
Undo(c, m) ==
  CASE c.kind = "AddAtom" -> AddAtomUndo(c, m)
    [] c.kind = "RemoveAtom" -> RemoveAtomUndo(c, m)
    [] c.kind = "SetPosition3d" -> SetPosition3dLoop(c, c.oldPosition3ds, 1, Ok(m))
    [] c.kind = "AddBond" -> AddBondUndo(c, m)
    [] c.kind = "RemoveBond" -> RemoveBondUndo(c, m)
    [] c.kind = "SetAtomFormalCharge" -> SetAtomFormalCharge(c, c.oldCharge, m)
    [] c.kind = "SetBondOrder" -> SetBondOrder(c, c.oldBondOrder, m)

\* One more command run on a result: nothing runs after undefined behaviour.
ThenRedo(w, c) ==
  IF w.ub THEN w
  ELSE LET r == Redo(c, w.m) IN [r EXCEPT !.af = r.af \/ w.af]

ThenUndo(w, c) ==
  IF w.ub THEN w
  ELSE LET r == Undo(c, w.m) IN [r EXCEPT !.af = r.af \/ w.af]

\* redo() of an entry of the stack: its commands in order.
RECURSIVE RedoAll(_, _, _)
RedoAll(cmds, i, w) ==
  IF i > Len(cmds) THEN w ELSE RedoAll(cmds, i + 1, ThenRedo(w, cmds[i]))

\* undo() of an entry of the stack: its commands in reverse order.
RECURSIVE UndoAll(_, _, _)
UndoAll(cmds, i, w) ==
  IF i < 1 THEN w ELSE UndoAll(cmds, i - 1, ThenUndo(w, cmds[i]))

\* ----------------------------------------------------------- the undo stack
\* An entry of the stack: one command, or the macro that removeAtom builds.
Entry(macro, cmds) == [macro |-> macro, cmds |-> cmds]

\* id() of an entry: a macro has the id -1 of QUndoCommand.
EntryId(e) == IF e.macro THEN -1 ELSE CommandId(e.cmds[1])

EmptyStack == [commands |-> <<>>, index |-> 0]

\* QUndoStack::push after the command's redo() has run: the redo tail is
\* dropped; the command is merged into the one below the cursor when both
\* have the same id other than -1, else appended and the cursor moved on.
Push(stack, e) ==
  LET kept == SubSeq(stack.commands, 1, stack.index)
      cur == kept[stack.index]
      try_merge == /\ stack.index > 0
                   /\ EntryId(cur) # -1
                   /\ EntryId(cur) = EntryId(e)
  IN IF try_merge /\ MergeWith(cur.cmds[1], e.cmds[1]).ok
     THEN [commands |-> [kept EXCEPT ![stack.index] =
                           Entry(FALSE, <<MergeWith(cur.cmds[1], e.cmds[1]).cmd>>)],
           index |-> stack.index]
     ELSE [commands |-> Append(kept, e), index |-> stack.index + 1]

\* The topmost of the first n entries that is a mergeable command, 0 when
\* there is none.
TopMergeable(commands, n) ==
  LET ms == {i \in 1 .. n : EntryId(commands[i]) # -1}
  IN IF ms = {} THEN 0 ELSE CHOOSE i \in ms : \A j \in ms : j <= i

\* The last operation on the molecule and the molecule before it; below
\* tells whether entries stood above the cursor when the operation began;
\* sealed is the place of the topmost mergeable entry that was pushed before
\* the interactive-session flag was last cleared, 0 when there is none (a
\* push drops the entries above the cursor).
Did(op, kind, atomId) ==
  hist' = [op |-> op, kind |-> kind, atomId |-> atomId, before |-> m_molecule,
           below |-> Len(m_undoStack.commands) > m_undoStack.index,
           sealed |-> IF op = "push" /\ m_undoStack.index < hist.sealed
                      THEN TopMergeable(m_undoStack.commands, m_undoStack.index)
                      ELSE hist.sealed]

\* The run of interactive position edits that no other command, undo or redo
\* has interrupted: for every atom it moved, where the atom was before.
NoDrag == [active |-> FALSE, start |-> <<>>]

\* The outcome of an operation whose commands ran with result w and that
\* leaves the stack as `stack`: an out-of-range access is undefined
\* behaviour, a failed assert aborts the debug build.
CommitRW(w, stack) ==
  \/ /\ ~w.ub
     /\ m_molecule' = w.m
     /\ m_undoStack' = stack
     /\ fault' = "none"
  \/ /\ ~w.ub
     /\ w.af
     /\ fault' = "assert"
     /\ UNCHANGED <<m_molecule, m_undoStack>>
  \/ /\ w.ub
     /\ fault' = "ub"
     /\ m_molecule' \in {m_molecule, EmptyMol}
     /\ UNCHANGED m_undoStack

\* Every operation that runs a command: one of the MaxOps calls, on an
\* object that has not failed; the group map is another object.
Op ==
  /\ fault = "none"
  /\ ncalls < MaxOps
  /\ ncalls' = ncalls + 1
  /\ UNCHANGED bmVars

RWIdle ==
  /\ m_molecule = EmptyMol
  /\ m_undoStack = EmptyStack
  /\ m_interactive = FALSE
  /\ hist = [op |-> "init", kind |-> "none", atomId |-> 0, before |-> EmptyMol,
             below |-> FALSE, sealed |-> 0]
  /\ drag = NoDrag

InitRW ==
  /\ RWIdle
  /\ m_elementToGroup = ResetToSize(0).e2g
  /\ m_groupToElement = ResetToSize(0).g2e
  /\ fault = "none"
  /\ call = [op |-> "BiMap", a |-> 0, b |-> 0]
  /\ edges = {}
  /\ ncalls = 0

\* RWMolecule::addAtom(atomicNumber, usingPositions)
addAtom ==
  \E atomicNumber \in AtomicNums, usingPositions \in BOOLEAN :
    LET c == [kind |-> "AddAtom", atomicNumber |-> atomicNumber,
              usingPositions |-> usingPositions,
              atomId |-> atomCount(m_molecule),
              uniqueId |-> Len(m_molecule.atomUniqueIds)]
    IN /\ Op
       /\ atomCount(m_molecule) < MaxAtoms
       /\ CommitRW(Redo(c, m_molecule), Push(m_undoStack, Entry(FALSE, <<c>>)))
       /\ Did("push", "AddAtom", c.atomId)
       /\ drag' = NoDrag
       /\ UNCHANGED m_interactive

\* The commands of RWMolecule::removeAtom(atomId) after the ones in cmds
\* have run with result w: removeBond for the bond of the atom with the
\* highest index while there is one, then the RemoveAtomCommand.
RECURSIVE RemoveAtomMacro(_, _, _, _)
RemoveAtomMacro(atomId, atomUid, cmds, w) ==
  LET bs == bonds(w.m, atomId)
      bondId == CHOOSE b \in bs : \A x \in bs : x <= b
      rb == [kind |-> "RemoveBond", bondId |-> bondId,
             bondUid |-> FindUniqueId(w.m.bondUniqueIds, bondId),
             bondPair |-> w.m.bondPairs[bondId + 1],
             bondOrder |-> w.m.bondOrders[bondId + 1]]
      ra == [kind |-> "RemoveAtom", atomId |-> atomId, atomUid |-> atomUid,
             atomicNumber |-> w.m.atomicNumbers[atomId + 1],
             position3d |-> atomPosition3d(w.m, atomId),
             born |-> w.m.born[atomId + 1]]
  IN IF w.ub THEN [cmds |-> cmds, w |-> w]
     ELSE IF bs = {} THEN [cmds |-> Append(cmds, ra), w |-> ThenRedo(w, ra)]
     ELSE RemoveAtomMacro(atomId, atomUid, Append(cmds, rb), ThenRedo(w, rb))

\* RWMolecule::removeAtom(atomId)
removeAtomOf(atomId) ==
  LET atomUid == FindUniqueId(m_molecule.atomUniqueIds, atomId)
      r == RemoveAtomMacro(atomId, atomUid, <<>>, Ok(m_molecule))
  IN /\ Op
     /\ atomId < atomCount(m_molecule)
     /\ atomUid # MaxIndex
     /\ CommitRW(r.w, Push(m_undoStack, Entry(TRUE, r.cmds)))
     /\ Did("push", "RemoveAtom", atomId)
     /\ drag' = NoDrag
     /\ UNCHANGED m_interactive

removeAtom == \E atomId \in 0 .. (MaxAtoms - 1) : removeAtomOf(atomId)

\* RWMolecule::addBond(atom1, atom2, order)
addBond ==
  \E atom1 \in 0 .. (MaxAtoms - 1), atom2 \in 0 .. (MaxAtoms - 1),
     order \in BondOrders :
    LET c == [kind |-> "AddBond", bondOrder |-> order,
              bondPair |-> makeBondPair(atom1, atom2),
              bondId |-> bondCount(m_molecule),
              uniqueId |-> Len(m_molecule.bondUniqueIds)]
    IN /\ Op
       /\ atom1 # atom2
       /\ atom1 < atomCount(m_molecule)
       /\ atom2 < atomCount(m_molecule)
       /\ bondCount(m_molecule) < MaxBonds
       /\ CommitRW(Redo(c, m_molecule), Push(m_undoStack, Entry(FALSE, <<c>>)))
       /\ Did("push", "AddBond", atom1)
       /\ drag' = NoDrag
       /\ UNCHANGED m_interactive

\* RWMolecule::removeBond(bondId)
removeBond ==
  \E bondId \in 0 .. (MaxBonds - 1) :
    LET bondUid == FindUniqueId(m_molecule.bondUniqueIds, bondId)
        c == [kind |-> "RemoveBond", bondId |-> bondId, bondUid |-> bondUid,
              bondPair |-> m_molecule.bondPairs[bondId + 1],
              bondOrder |-> m_molecule.bondOrders[bondId + 1]]
    IN /\ Op
       /\ bondId < bondCount(m_molecule)
       /\ bondUid # MaxIndex
       /\ CommitRW(Redo(c, m_molecule), Push(m_undoStack, Entry(FALSE, <<c>>)))
       /\ Did("push", "RemoveBond", bondId)
       /\ drag' = NoDrag
       /\ UNCHANGED m_interactive

\* RWMolecule::setAtomPosition3d(atomId, pos) on a molecule that has the
\* coordinate of every atom.
setAtomPosition3dOf(atomId, pos) ==
  LET old == atomPosition3d(m_molecule, atomId)
      c == [kind |-> "SetPosition3d", canMerge |-> m_interactive,
            atomIds |-> <<atomId>>, oldPosition3ds |-> <<old>>,
            newPosition3ds |-> <<pos>>]
      stack == Push(m_undoStack, Entry(FALSE, <<c>>))
  IN /\ Op
     /\ atomId < atomCount(m_molecule)
     /\ Len(m_molecule.positions3d) = atomCount(m_molecule)
     /\ CommitRW(Redo(c, m_molecule), stack)
     /\ Did(IF stack.index = m_undoStack.index THEN "merge" ELSE "push",
            "SetPosition3d", atomId)
     /\ drag' = IF ~m_interactive THEN NoDrag
                ELSE IF atomId \in DOMAIN drag.start THEN drag
                ELSE [active |-> TRUE, start |-> MapSet(drag.start, atomId, old)]
     /\ UNCHANGED m_interactive

setAtomPosition3d ==
  \E atomId \in 0 .. (MaxAtoms - 1), pos \in Coords :
    setAtomPosition3dOf(atomId, pos)

\* RWMolecule::setFormalCharge(atomId, charge): the column gets a value for
\* every atom before the command is built.
setFormalCharge ==
  \E atomId \in 0 .. (MaxAtoms - 1), charge \in Charges :
    LET n == Len(m_molecule.formalCharges)
        sized == IF n >= atomCount(m_molecule) THEN m_molecule
                 ELSE [m_molecule EXCEPT !.formalCharges =
                         @ \o [i \in 1 .. (atomCount(m_molecule) - n) |-> Zero]]
        c == [kind |-> "SetAtomFormalCharge", atomId |-> atomId,
              oldCharge |-> sized.formalCharges[atomId + 1],
              newCharge |-> charge]
    IN /\ Op
       /\ atomId < atomCount(m_molecule)
       /\ CommitRW(Redo(c, sized), Push(m_undoStack, Entry(FALSE, <<c>>)))
       /\ Did("push", "SetAtomFormalCharge", atomId)
       /\ drag' = NoDrag
       /\ UNCHANGED m_interactive

\* RWMolecule::setBondOrder(bondId, order)
setBondOrderOf(bondId, order) ==
  LET c == [kind |-> "SetBondOrder", canMerge |-> m_interactive,
            bondId |-> bondId,
            oldBondOrder |-> m_molecule.bondOrders[bondId + 1],
            newBondOrder |-> order]
      stack == Push(m_undoStack, Entry(FALSE, <<c>>))
  IN /\ Op
     /\ bondId < bondCount(m_molecule)
     /\ CommitRW(Redo(c, m_molecule), stack)
     /\ Did(IF stack.index = m_undoStack.index THEN "merge" ELSE "push",
            "SetBondOrder", bondId)
     /\ drag' = NoDrag
     /\ UNCHANGED m_interactive

setBondOrder ==
  \E bondId \in 0 .. (MaxBonds - 1), order \in EditOrders :
    setBondOrderOf(bondId, order)

\* RWMolecule::setInteractive(enable)
setInteractive ==
  \E enable \in BOOLEAN :
    /\ fault = "none"
    /\ enable # m_interactive
    /\ m_interactive' = enable
    /\ hist' = IF enable THEN hist
               ELSE [hist EXCEPT !.sealed =
                       TopMergeable(m_undoStack.commands,
                                    Len(m_undoStack.commands))]
    /\ UNCHANGED <<m_molecule, m_undoStack, fault, drag, ncalls>>
    /\ UNCHANGED bmVars

\* QUndoStack::undo: the entry below the cursor is undone, the cursor moves
\* down.
undo ==
  LET e == m_undoStack.commands[m_undoStack.index]
  IN /\ Op
     /\ m_undoStack.index > 0
     /\ CommitRW(UndoAll(e.cmds, Len(e.cmds), Ok(m_molecule)),
                 [m_undoStack EXCEPT !.index = @ - 1])
     /\ Did("undo", e.cmds[Len(e.cmds)].kind, 0)
     /\ drag' = NoDrag
     /\ UNCHANGED m_interactive

\* QUndoStack::redo: the entry at the cursor is redone, the cursor moves up.
redo ==
  LET e == m_undoStack.commands[m_undoStack.index + 1]
  IN /\ Op
     /\ m_undoStack.index < Len(m_undoStack.commands)
     /\ CommitRW(RedoAll(e.cmds, 1, Ok(m_molecule)),
                 [m_undoStack EXCEPT !.index = @ + 1])
     /\ Did("redo", e.cmds[Len(e.cmds)].kind,
            IF e.macro THEN e.cmds[Len(e.cmds)].atomId ELSE 0)
     /\ drag' = NoDrag
     /\ UNCHANGED m_interactive

NextRW ==
  \/ addAtom
  \/ removeAtom
  \/ addBond
  \/ removeBond
  \/ setAtomPosition3d
  \/ setInteractive
  \/ undo
  \/ redo

SpecRW == InitRW /\ [][NextRW]_vars

\* The operations that add and remove atoms and bonds between them, undone
\* and redone.
NextRemove ==
  \/ addAtom
  \/ addBond
  \/ removeAtom
  \/ undo
  \/ redo

SpecRemove == InitRW /\ [][NextRemove]_vars

\* Atoms that carry a formal charge are added and removed.
NextCharge ==
  \/ addAtom
  \/ setFormalCharge
  \/ removeAtom
  \/ undo
  \/ redo

SpecCharge == InitRW /\ [][NextCharge]_vars

\* Bonds are made and their orders edited, in and out of a session.
NextOrder ==
  \/ addAtom
  \/ addBond
  \/ setBondOrder
  \/ setInteractive
  \/ undo
  \/ redo

\* A molecule handed to the RWMolecule at construction: three atoms in a
\* chain of two single bonds.
Chain ==
  LET a == MolAddAtom(MolAddAtom(MolAddAtom(EmptyMol, 1), 1), 1)
  IN MolAddBond(MolAddBond(a, 0, 1, 1), 1, 2, 1)

\* RWMolecule(mol) on an empty molecule or on the chain; the undo stack is
\* empty.
InitOrder ==
  /\ m_molecule \in {EmptyMol, Chain}
  /\ m_undoStack = EmptyStack
  /\ m_interactive = FALSE
  /\ hist = [op |-> "init", kind |-> "none", atomId |-> 0, before |-> EmptyMol,
             below |-> FALSE, sealed |-> 0]
  /\ drag = NoDrag
  /\ m_elementToGroup = ResetToSize(0).e2g
  /\ m_groupToElement = ResetToSize(0).g2e
  /\ fault = "none"
  /\ call = [op |-> "BiMap", a |-> 0, b |-> 0]
  /\ edges = {}
  /\ ncalls = 0

SpecOrder == InitOrder /\ [][NextOrder]_vars

\* ------------------------------------------------------------------ outcomes
\* What an out-of-range access to m_groupToElement can leave behind: the
\* process may die with the containers as they were, or go on with arbitrary
\* contents.  The arbitrary contents are drawn from a small family.
HavocGroups == {<<>>, <<{}>>, <<Elems>>}

HavocMaps == {<<>>, [e \in Elems |-> 0]}

Undefined ==
  /\ fault' = "ub"
  /\ \/ UNCHANGED <<m_elementToGroup, m_groupToElement>>
     \/ /\ m_groupToElement' \in HavocGroups
        /\ UNCHANGED m_elementToGroup
     \/ /\ m_elementToGroup' \in HavocMaps
        /\ UNCHANGED m_groupToElement

\* Store the result of a method, or the outcome of undefined behaviour.
Commit(bm) ==
  IF bm.ub THEN Undefined
  ELSE /\ Len(bm.g2e) <= MaxGroups
       /\ m_elementToGroup' = bm.e2g
       /\ m_groupToElement' = bm.g2e
       /\ fault' = "none"

Called(op, a, b) ==
  /\ ncalls < MaxCalls
  /\ ncalls' = ncalls + 1
  /\ call' = [op |-> op, a |-> a, b |-> b]
  /\ UNCHANGED rwVars

Touching(x) == {e \in edges : x \in e}

\* ------------------------------------------------------------------- actions
\* BiMap() and BiMap(n)
InitBiMap ==
  /\ \E n \in 0 .. MaxElem :
       /\ m_elementToGroup = ResetToSize(n).e2g
       /\ m_groupToElement = ResetToSize(n).g2e
  /\ fault = "none"
  /\ call = [op |-> "BiMap", a |-> 0, b |-> 0]
  /\ edges = {}
  /\ ncalls = 0
  /\ RWIdle

\* addElement(index) with an id that is not present.
addElement ==
  \E index \in Elems :
    /\ fault = "none"
    /\ index \notin DOMAIN m_elementToGroup
    /\ Commit(AddElementBM(CurBM, index))
    /\ Called("addElement", index, index)
    /\ UNCHANGED edges

\* addElement(index) with an id that is present: the method has no assert.
addElementPresent ==
  \E index \in Elems :
    /\ fault = "none"
    /\ index \in DOMAIN m_elementToGroup
    /\ Commit(AddElementBM(CurBM, index))
    /\ Called("addElementPresent", index, index)
    /\ UNCHANGED edges

\* removeConections(): every recorded edge is gone.
removeConections ==
  /\ fault = "none"
  /\ Commit(RemoveConectionsBM(CurBM))
  /\ Called("removeConections", 0, 0)
  /\ edges' = {}

\* addConection(a, b); the asserts are the guard.
addConectionOf(a, b) ==
  /\ fault = "none"
  /\ a \in DOMAIN m_elementToGroup
  /\ b \in DOMAIN m_elementToGroup
  /\ Commit(AddConectionBM(CurBM, a, b))
  /\ Called("addConection", a, b)

addConection ==
  \E a \in Elems, b \in Elems : addConectionOf(a, b) /\ UNCHANGED edges

\* addConection(a, b) for an edge {a, b} of a graph, the edge recorded.
addEdge ==
  \E a \in Elems : \E b \in Elems \ {a} :
    addConectionOf(a, b) /\ edges' = edges \cup {{a, b}}

\* removeElement(index); its assert is the guard.  The assert inside the
\* removeConection(index) it calls can fail although removeElement's own
\* holds: a build with asserts aborts there, one without goes on.
removeElementOf(index) ==
  /\ fault = "none"
  /\ index \in DOMAIN m_elementToGroup
  /\ Called("removeElement", index, index)
  /\ edges' = edges \ Touching(index)
  /\ \/ Commit(RemoveElementBM(CurBM, index))
     \/ /\ ~(index < Cardinality(DOMAIN m_elementToGroup))
        /\ fault' = "assert"
        /\ UNCHANGED <<m_elementToGroup, m_groupToElement>>

removeElement == \E index \in Elems : removeElementOf(index)

\* removeConection(index); its assert is the guard.
removeConectionOf(index) ==
  /\ fault = "none"
  /\ index < Cardinality(DOMAIN m_elementToGroup)
  /\ Commit(RemoveConectionBM(CurBM, index))
  /\ Called("removeConection", index, index)
  /\ edges' = edges \ Touching(index)

removeConection == \E index \in Elems : removeConectionOf(index)

\* The neighbours of x in the graph with the edges E.
Neighbors(E, x) == {y \in Elems : {x, y} \in E}

\* removeConection(a, a_neighbors, b, b_neighbors) for an edge {a, b} that
\* has just been taken out of the graph, with the neighbours that a and b
\* have left; the two asserts are the guard.  The assert inside the
\* removeConection(a) it calls can fail: a build with asserts aborts there.
removeConectionHookOf(a, b) ==
  LET E == edges \ {{a, b}}
      a_neighbors == Neighbors(E, a)
      b_neighbors == Neighbors(E, b)
  IN /\ fault = "none"
     /\ {a, b} \in edges
     /\ a \in DOMAIN m_elementToGroup
     /\ b \in DOMAIN m_elementToGroup
     /\ Called("removeConectionHook", a, b)
     /\ edges' = E
     /\ \/ Commit(RemoveConectionHookBM(CurBM, a, a_neighbors, b, b_neighbors))
        \/ /\ a_neighbors \cap b_neighbors = {}
           /\ ~(a < Cardinality(DOMAIN m_elementToGroup))
           /\ fault' = "assert"
           /\ UNCHANGED <<m_elementToGroup, m_groupToElement>>

removeConectionHook ==
  \E a \in Elems : \E b \in Elems \ {a} : removeConectionHookOf(a, b)

\* ------------------------------------------------------------ specifications
\* Vertices are added and connected, nothing is removed.
NextConnect == addElement \/ addEdge

SpecConnect == InitBiMap /\ [][NextConnect]_vars

\* The three calls of the partition invariant.
NextCore == addElement \/ addConection \/ removeElement

SpecCore == InitBiMap /\ [][NextCore]_vars

\* All modelled BiMap calls.
NextBiMap == addElement \/ addConection \/ removeElement \/ removeConection

SpecBiMap == InitBiMap /\ [][NextBiMap]_vars

\* Elements are added, also under ids the map already holds.
NextAdd == addElement \/ addElementPresent \/ addConection

SpecAdd == InitBiMap /\ [][NextAdd]_vars

\* Groups are built and then reset.
NextReset == addElement \/ addConection \/ removeConections

SpecReset == InitBiMap /\ [][NextReset]_vars

\* A graph is built edge by edge and edges are taken out through the hook.
NextHook == addElement \/ addEdge \/ removeConectionHook

SpecHook == InitBiMap /\ [][NextHook]_vars

\* ------------------------------------------------------------ BiMap claims
\* The elements the map knows: the keys of m_elementToGroup (what the
\* asserts of the methods test).
Present == DOMAIN m_elementToGroup

GroupSets(g2e) == {g2e[i] : i \in 1 .. Len(g2e)}

\* The slots whose set holds e.
SlotsOf(g2e, e) == {i \in 1 .. Len(g2e) : e \in g2e[i]}

\* The elements that share a group set with e.
MembersWith(g2e, e) == UNION {g2e[i] : i \in SlotsOf(g2e, e)}

\* C1: after addElement / addConection / removeElement calls, every present
\* element is in exactly one group set and the union of the group sets of
\* getAllGroups() is the set of present elements.
C1_Partition ==
  fault = "none" =>
    /\ \A e \in Present : Cardinality(SlotsOf(getAllGroups, e)) = 1
    /\ UNION GroupSets(getAllGroups) = Present

\* The vertices reachable from the set S along the recorded edges.
RECURSIVE Grow(_)
Grow(S) ==
  LET T == S \cup {w \in Present : \E u \in S : {u, w} \in edges}
  IN IF T = S THEN S ELSE Grow(T)

\* The connected components of the graph (Present, edges).
Components == {Grow({v}) : v \in Present}

\* C3: with every vertex added once and addConection called for the edges
\* of a graph, getAllGroups() is exactly the connected components of the
\* graph, one slot for each.
C3_GroupsAreComponents ==
  fault = "none" =>
    /\ GroupSets(getAllGroups) = Components
    /\ Len(getAllGroups) = Cardinality(Components)

\* C4: right after addConection(a, b), getGroup(a) = getGroup(b).
C4_ConnectedSameGroup ==
  (call.op = "addConection" /\ fault = "none") =>
    getGroup(call.a) = getGroup(call.b)

\* C9: after removeElement(id), id has no entry in m_elementToGroup and is
\* in no group set, every other element is still present with the same
\* fellow members, and no slot is empty.
C9_RemoveElementDeletes ==
  [][\A id \in Elems :
       (removeElementOf(id) /\ fault' = "none") =>
         /\ id \notin DOMAIN m_elementToGroup'
         /\ SlotsOf(m_groupToElement', id) = {}
         /\ DOMAIN m_elementToGroup' = (DOMAIN m_elementToGroup) \ {id}
         /\ \A x \in (DOMAIN m_elementToGroup) \ {id} :
              MembersWith(m_groupToElement', x) \ {id} =
                MembersWith(m_groupToElement, x) \ {id}
         /\ \A i \in 1 .. Len(m_groupToElement') : m_groupToElement'[i] # {}
    ]_vars

\* C10: removeConection(id) on an element whose group has more than one
\* member leaves id alone in a new group, the last slot, and every other
\* element with the fellow members it had, id apart; when id's group has
\* one member nothing changes.
C10_DisconnectOnlyId ==
  [][\A id \in Elems :
       (removeConectionOf(id) /\ fault' = "none" /\ id \in DOMAIN m_elementToGroup) =>
         IF Cardinality(MembersWith(m_groupToElement, id)) > 1
         THEN /\ SlotsOf(m_groupToElement', id) = {Len(m_groupToElement')}
              /\ m_groupToElement'[Len(m_groupToElement')] = {id}
              /\ m_elementToGroup'[id] = Len(m_groupToElement') - 1
              /\ \A x \in (DOMAIN m_elementToGroup) \ {id} :
                   /\ m_elementToGroup'[x] = m_elementToGroup[x]
                   /\ MembersWith(m_groupToElement', x) \ {id} =
                        MembersWith(m_groupToElement, x) \ {id}
         ELSE UNCHANGED <<m_elementToGroup, m_groupToElement>>
    ]_vars

\* ------------------------------------------------- the editable molecule
\* The bindings of a UniqueId table that resolve: UniqueId and position.
Bindings(table) ==
  {<<u - 1, table[u]>> : u \in {x \in 1 .. Len(table) : table[x] # MaxIndex}}

\* Two molecules with the same attribute columns, the same bond pairs and
\* the same resolving UniqueIds for atoms and for bonds.
SameState(a, b) ==
  /\ a.atomicNumbers = b.atomicNumbers
  /\ a.positions3d = b.positions3d
  /\ a.bondPairs = b.bondPairs
  /\ a.bondOrders = b.bondOrders
  /\ Bindings(a.atomUniqueIds) = Bindings(b.atomUniqueIds)
  /\ Bindings(a.bondUniqueIds) = Bindings(b.bondUniqueIds)

\* C2: a command that was just applied (pushed as an entry of its own, or
\* redone) and is then undone leaves every attribute column, the bond pairs
\* and the resolving UniqueIds of atoms and bonds as they were before the
\* command was applied.
C2_RedoUndoRoundTrip ==
  [][(hist.op \in {"push", "redo"} /\ undo /\ fault' = "none")
       => SameState(m_molecule', hist.before)]_vars

\* C8: a command that was just undone and is then redone leaves every
\* attribute column, the bond pairs and the resolving UniqueIds as they were
\* before the undo.
C8_UndoRedoReproduces ==
  [][(hist.op = "undo" /\ redo /\ fault' = "none")
       => SameState(m_molecule', hist.before)]_vars

\* C6: every UniqueId that resolves names a position that holds an atom, and
\* that atom is the one the UniqueId was allocated for.
C6_UniqueIdNamesItsAtom ==
  fault = "none" =>
    \A u \in 1 .. Len(m_molecule.atomUniqueIds) :
      LET p == m_molecule.atomUniqueIds[u]
      IN p # MaxIndex =>
           /\ p < atomCount(m_molecule)
           /\ m_molecule.born[p + 1] = u - 1

AtomAt(m, q, full) ==
  <<m.atomicNumbers[q + 1], m.born[q + 1],
    IF full THEN m.positions3d[q + 1] ELSE Zero>>

\* The removal of the atom at p took molecule a to molecule b and touched
\* nothing but what the compaction has to touch; a coordinate column that is
\* not as long as the atom column is left as it is.
OnlyCompacted(a, b, p) ==
  LET last == atomCount(a) - 1
      full == Len(a.positions3d) = atomCount(a)
      Moved(x) == IF p < last /\ x = last THEN p ELSE x
      rebound == {u \in 1 .. Len(a.atomUniqueIds) :
                    /\ p < last
                    /\ a.atomUniqueIds[u] = last
                    /\ b.atomUniqueIds[u] = p}
  IN /\ atomCount(b) = last
     /\ IF full THEN Len(b.positions3d) = last
        ELSE b.positions3d = a.positions3d
     /\ \A q \in 0 .. (last - 1) :
          AtomAt(b, q, full) = AtomAt(a, IF q = p THEN last ELSE q, full)
     /\ Len(b.atomUniqueIds) = Len(a.atomUniqueIds)
     /\ \A u \in 1 .. Len(a.atomUniqueIds) :
          \/ b.atomUniqueIds[u] = a.atomUniqueIds[u]
          \/ a.atomUniqueIds[u] = p /\ b.atomUniqueIds[u] = MaxIndex
          \/ u \in rebound
     /\ Cardinality(rebound) = IF p < last THEN 1 ELSE 0
     /\ Len(b.bondPairs) = Len(a.bondPairs)
     /\ \A i \in 1 .. Len(a.bondPairs) :
          b.bondPairs[i] = <<Moved(a.bondPairs[i][1]), Moved(a.bondPairs[i][2])>>
     /\ b.bondOrders = a.bondOrders
     /\ b.bondUniqueIds = a.bondUniqueIds

\* C7: when an atom is removed (by removeAtom, or by the redo of one), from
\* the molecule its bonds have been taken out of to the molecule after it: the
\* removal of the last atom changes no other atom's data and no other
\* UniqueId; the removal of the atom at p < last moves the atom at last to p
\* and no other, rebinds one UniqueId, from last to p, and rewrites the bond
\* endpoints that were last to p and no other.
C7_RemovalFrame ==
  [][((removeAtom \/ redo) /\ fault' = "none" /\ hist'.kind = "RemoveAtom")
       => LET e == m_undoStack'.commands[m_undoStack'.index]
              n == Len(e.cmds)
              start == RedoAll(SubSeq(e.cmds, 1, n - 1), 1, Ok(m_molecule)).m
          IN OnlyCompacted(start, m_molecule', e.cmds[n].atomId)]_vars

\* C7 happens: the atom at 0 of three has just been removed, and a bond
\* between the atoms at 1 and 2 had its endpoint 2 rewritten to 0.
C7_Witness ==
  /\ fault = "none"
  /\ hist.op = "push"
  /\ hist.kind = "RemoveAtom"
  /\ hist.atomId = 0
  /\ atomCount(hist.before) = 3
  /\ \E i \in 1 .. Len(hist.before.bondPairs) :
       /\ hist.before.bondPairs[i] = <<1, 2>>
       /\ bonds(hist.before, 0) = {}
       /\ m_molecule.bondPairs[i] = <<1, 0>>

\* C11: a call of the hook for a removed edge {a, b} whose endpoints still
\* have a common neighbour leaves m_elementToGroup and m_groupToElement as
\* they are.
C11_SharedNeighbourNoOp ==
  [][\A a \in Elems, b \in Elems :
       (/\ removeConectionHookOf(a, b)
        /\ fault' = "none"
        /\ Neighbors(edges', a) \cap Neighbors(edges', b) # {})
         => UNCHANGED <<m_elementToGroup, m_groupToElement>>]_vars

\* C11 happens: one edge of a triangle whose vertices are one group has just
\* gone through the hook, and the three vertices are still one group.
C11_Witness ==
  /\ fault = "none"
  /\ call.op = "removeConectionHook"
  /\ {call.a, call.b} \notin edges
  /\ \E c \in Elems \ {call.a, call.b} :
       /\ {call.a, c} \in edges
       /\ {call.b, c} \in edges
       /\ \E i \in 1 .. Len(m_groupToElement) :
            {call.a, call.b, c} \subseteq m_groupToElement[i]

\* C12: a position edit made when the entry below the cursor is a mergeable
\* command that was pushed before the interactive-session flag was last
\* cleared is not merged into that entry: it becomes an entry of its own and
\* the cursor moves up.
C12_NoMergeAcrossClear ==
  [][(/\ \E atomId \in 0 .. (MaxAtoms - 1), pos \in Coords :
           setAtomPosition3dOf(atomId, pos)
      /\ fault' = "none"
      /\ m_undoStack.index >= 1
      /\ EntryId(m_undoStack.commands[m_undoStack.index]) # -1
      /\ m_undoStack.index <= hist.sealed)
       => m_undoStack'.index = m_undoStack.index + 1]_vars

\* C13: removing an atom that has incident bonds and undoing that removal at
\* once gives back the prior structure: the atom count, the bond count, the
\* positions and the resolving UniqueIds of atoms and of bonds are those of
\* the molecule before the removal.
C13_RemoveBondedAtomUndo ==
  [][(/\ hist.op = "push"
      /\ hist.kind = "RemoveAtom"
      /\ bonds(hist.before, hist.atomId) # {}
      /\ undo
      /\ fault' = "none")
       => /\ atomCount(m_molecule') = atomCount(hist.before)
          /\ bondCount(m_molecule') = bondCount(hist.before)
          /\ m_molecule'.positions3d = hist.before.positions3d
          /\ Bindings(m_molecule'.atomUniqueIds)
               = Bindings(hist.before.atomUniqueIds)
          /\ Bindings(m_molecule'.bondUniqueIds)
               = Bindings(hist.before.bondUniqueIds)]_vars

\* C14: removeConections() on a map that holds n elements completes and
\* leaves n groups, each element of the map alone in its own group.
C14_ResetToSingletons ==
  [][removeConections
       => /\ fault' = "none"
          /\ DOMAIN m_elementToGroup' = DOMAIN m_elementToGroup
          /\ Len(m_groupToElement') = Cardinality(DOMAIN m_elementToGroup)
          /\ \A e \in DOMAIN m_elementToGroup' :
               /\ m_elementToGroup'[e] < Len(m_groupToElement')
               /\ m_groupToElement'[m_elementToGroup'[e] + 1] = {e}]_vars

\* C15: addElement(id) with an id the map already holds fails as a
\* precondition violation and creates no second group that contains id.
C15_AddPresentFails ==
  [][addElementPresent
       => /\ fault' = "assert"
          /\ UNCHANGED <<m_elementToGroup, m_groupToElement>>]_vars

\* C16: addConection(a, b) called again right after addConection(a, b)
\* returned leaves the element-to-group map and the member sets unchanged.
C16_ConnectTwiceNoOp ==
  [][(/\ call.op = "addConection"
      /\ addConectionOf(call.a, call.b))
       => /\ fault' = "none"
          /\ UNCHANGED <<m_elementToGroup, m_groupToElement>>]_vars

\* A step of one of the operations that push a command.
Pushes == addAtom \/ removeAtom \/ addBond \/ removeBond \/ setAtomPosition3d

\* The new command is mergeable and so is the command below the cursor.
Coalesces ==
  /\ hist'.kind = "SetPosition3d"
  /\ m_interactive
  /\ m_undoStack.index > 0
  /\ EntryId(m_undoStack.commands[m_undoStack.index]) # -1

C18_EveryColumnCompacted ==
  [][\A p \in 0 .. (MaxAtoms - 1) :
       LET last == atomCount(m_molecule) - 1
       IN (/\ removeAtomOf(p)
           /\ fault' = "none"
           /\ p # last
           /\ Len(m_molecule.formalCharges) = atomCount(m_molecule))
            => /\ Len(m_molecule'.atomicNumbers) = last
               /\ m_molecule'.atomicNumbers[p + 1] = m_molecule.atomicNumbers[last + 1]
               /\ Len(m_molecule.positions3d) = atomCount(m_molecule)
                    => /\ Len(m_molecule'.positions3d) = last
                       /\ m_molecule'.positions3d[p + 1] = m_molecule.positions3d[last + 1]
               /\ Len(m_molecule'.formalCharges) = last
               /\ m_molecule'.formalCharges[p + 1] = m_molecule.formalCharges[last + 1]]_vars

\* C19: the atom UniqueIds that are not MaxIndex and the positions below
\* atomCount are in one-to-one correspondence: every position has exactly
\* one UniqueId that resolves to it, and every UniqueId that resolves does
\* so to a position below atomCount.
C19_UniqueIdBijection ==
  fault = "none" =>
    LET table == m_molecule.atomUniqueIds
    IN /\ \A pos \in 0 .. (atomCount(m_molecule) - 1) :
            Cardinality({u \in 1 .. Len(table) : table[u] = pos}) = 1
       /\ \A u \in 1 .. Len(table) :
            table[u] # MaxIndex => table[u] < atomCount(m_molecule)

\* C20: the undo of a bond removal that was just made puts the bond back
\* where it was: the bond pairs and bond orders are, position by position,
\* those before the removal, and so are the resolving bond UniqueIds, that
\* of the removed bond and that of the bond that had taken its place.
C20_RemoveBondUndo ==
  [][(/\ hist.op = "push"
      /\ hist.kind = "RemoveBond"
      /\ undo
      /\ fault' = "none")
       => /\ m_molecule'.bondPairs = hist.before.bondPairs
          /\ m_molecule'.bondOrders = hist.before.bondOrders
          /\ Bindings(m_molecule'.bondUniqueIds)
               = Bindings(hist.before.bondUniqueIds)]_vars

\* C21: every stored bond pair has the smaller atom position first.
C21_BondPairsNormalised ==
  fault = "none" =>
    \A b \in 1 .. Len(m_molecule.bondPairs) :
      m_molecule.bondPairs[b][1] < m_molecule.bondPairs[b][2]

C23_CoordinatesAllOrNothing ==
  fault = "none" =>
    \/ Len(m_molecule.positions3d) = 0
    \/ Len(m_molecule.positions3d) = atomCount(m_molecule)

\* The merged command new is the command cur with the edit of atomId from
\* old to pos taken in: one entry per atom; the 'after' value overwritten
\* and the 'before' value kept when cur has the atom, an entry of its own
\* appended when it has not.
TakenIn(cur, new, atomId, old, pos) ==
  LET has == {k \in 1 .. Len(cur.atomIds) : cur.atomIds[k] = atomId}
  IN /\ \A i \in 1 .. Len(new.atomIds) : \A j \in 1 .. Len(new.atomIds) :
          new.atomIds[i] = new.atomIds[j] => i = j
     /\ IF has # {}
        THEN /\ new.atomIds = cur.atomIds
             /\ new.oldPosition3ds = cur.oldPosition3ds
             /\ new.newPosition3ds =
                  [k \in 1 .. Len(cur.atomIds) |->
                     IF k \in has THEN pos ELSE cur.newPosition3ds[k]]
        ELSE /\ new.atomIds = Append(cur.atomIds, atomId)
             /\ new.oldPosition3ds = Append(cur.oldPosition3ds, old)
             /\ new.newPosition3ds = Append(cur.newPosition3ds, pos)

\* C24: a position edit that is merged into the command below the cursor is
\* taken in with one entry per atom ('after' overwritten for an atom the
\* command has, a new entry otherwise); the undo of a position command puts
\* every atom of the command at its 'before' value and the redo at its
\* 'after' value.
C24_MergeOneEntryPerAtom ==
  [][/\ \A atomId \in 0 .. (MaxAtoms - 1), pos \in Coords :
          (/\ setAtomPosition3dOf(atomId, pos)
           /\ fault' = "none"
           /\ m_undoStack'.index = m_undoStack.index)
            => TakenIn(m_undoStack.commands[m_undoStack.index].cmds[1],
                       m_undoStack'.commands[m_undoStack.index].cmds[1],
                       atomId, atomPosition3d(m_molecule, atomId), pos)
     /\ (undo /\ hist'.kind = "SetPosition3d")
          => LET c == m_undoStack.commands[m_undoStack.index].cmds[1]
             IN /\ fault' = "none"
                /\ \A k \in 1 .. Len(c.atomIds) :
                     atomPosition3d(m_molecule', c.atomIds[k]) = c.oldPosition3ds[k]
     /\ (redo /\ hist'.kind = "SetPosition3d")
          => LET c == m_undoStack.commands[m_undoStack.index + 1].cmds[1]
             IN /\ fault' = "none"
                /\ \A k \in 1 .. Len(c.atomIds) :
                     atomPosition3d(m_molecule', c.atomIds[k]) = c.newPosition3ds[k]]_vars

\* C24 happens: the edit just merged moved an atom that the command below
\* the cursor already held, a command that holds two atoms; its 'after'
\* value is new and differs from its 'before' value.
C24_Witness ==
  /\ fault = "none"
  /\ hist.op = "merge"
  /\ m_undoStack.index > 0
  /\ LET c == m_undoStack.commands[m_undoStack.index].cmds[1]
     IN /\ Len(c.atomIds) = 2
        /\ c.atomIds[1] = hist.atomId
        /\ c.newPosition3ds[1] # atomPosition3d(hist.before, hist.atomId)
        /\ c.newPosition3ds[1] # c.oldPosition3ds[1]

\* The entry below the cursor is a bond-order command built in a session.
TopIsBondOrder ==
  /\ m_undoStack.index > 0
  /\ ~m_undoStack.commands[m_undoStack.index].macro
  /\ m_undoStack.commands[m_undoStack.index].cmds[1].kind = "SetBondOrder"
  /\ m_undoStack.commands[m_undoStack.index].cmds[1].canMerge

\* C25: a bond-order edit is merged into the entry below the cursor only
\* when that entry is a bond-order command of the same bond, both built in a
\* session, and then only its 'after' order changes; an edit of another
\* bond, and a command of another kind, completes without an error as a new
\* entry above the untouched one; the undo of a bond-order entry writes the
\* previous order of its own bond and changes nothing else.
C25_BondOrderMerge ==
  [][/\ \A bondId \in 0 .. (MaxBonds - 1), order \in EditOrders :
          setBondOrderOf(bondId, order)
            => LET i == m_undoStack.index
                   cur == m_undoStack.commands[i].cmds[1]
               IN /\ fault' = "none"
                  /\ IF m_undoStack'.index = i
                     THEN /\ TopIsBondOrder
                          /\ m_interactive
                          /\ cur.bondId = bondId
                          /\ m_undoStack'.commands =
                               [SubSeq(m_undoStack.commands, 1, i) EXCEPT ![i] =
                                  Entry(FALSE, <<[cur EXCEPT !.newBondOrder = order]>>)]
                     ELSE /\ m_undoStack'.index = i + 1
                          /\ Len(m_undoStack'.commands) = i + 1
                          /\ SubSeq(m_undoStack'.commands, 1, i)
                               = SubSeq(m_undoStack.commands, 1, i)
                          /\ m_undoStack'.commands[i + 1].cmds[1].bondId = bondId
     /\ ((addAtom \/ addBond) /\ TopIsBondOrder)
          => /\ fault' = "none"
             /\ m_undoStack'.index = m_undoStack.index + 1
             /\ SubSeq(m_undoStack'.commands, 1, m_undoStack.index)
                  = SubSeq(m_undoStack.commands, 1, m_undoStack.index)
     /\ (undo /\ hist'.kind = "SetBondOrder")
          => LET c == m_undoStack.commands[m_undoStack.index].cmds[1]
             IN /\ fault' = "none"
                /\ m_molecule' =
                     [m_molecule EXCEPT !.bondOrders[c.bondId + 1] = c.oldBondOrder]]_vars

\* C25 happens: in one session the orders of two bonds were edited, the
\* edits are two entries, and the later one has just been undone: the bond
\* of the earlier entry still has its edited order.
C25_Witness ==
  /\ fault = "none"
  /\ hist.op = "undo"
  /\ hist.kind = "SetBondOrder"
  /\ TopIsBondOrder
  /\ Len(m_undoStack.commands) > m_undoStack.index
  /\ LET c == m_undoStack.commands[m_undoStack.index].cmds[1]
         d == m_undoStack.commands[m_undoStack.index + 1].cmds[1]
     IN /\ d.kind = "SetBondOrder"
        /\ d.canMerge
        /\ d.bondId # c.bondId
        /\ d.newBondOrder # d.oldBondOrder
        /\ c.newBondOrder # c.oldBondOrder
        /\ m_molecule.bondOrders[c.bondId + 1] = c.newBondOrder
        /\ m_molecule.bondOrders[d.bondId + 1] = d.oldBondOrder

\* C26: when the neighbours of a and of b have no common element, the hook
\* completes and leaves a in a group whose members are a and the neighbours
\* of a and no other, and every element of the map is a member of exactly
\* one group.
C26_DetachWithNeighbours ==
  [][\A a \in Elems : \A b \in Elems \ {a} :
       (/\ removeConectionHookOf(a, b)
        /\ Neighbors(edges', a) \cap Neighbors(edges', b) = {})
         => /\ fault' = "none"
            /\ m_elementToGroup'[a] < Len(m_groupToElement')
            /\ m_groupToElement'[m_elementToGroup'[a] + 1]
                 = {a} \cup Neighbors(edges', a)
            /\ \A e \in DOMAIN m_elementToGroup' :
                 Cardinality({g \in 1 .. Len(m_groupToElement') :
                                e \in m_groupToElement'[g]}) = 1]_vars

\* C27: no slot of the group list is empty.
C27_NoEmptyGroup ==
  fault = "none" =>
    \A g \in 1 .. Len(m_groupToElement) : m_groupToElement[g] # {}

\* C28: the two containers agree: every present element maps to a slot of
\* the group list that contains it, and every member of a slot maps to that
\* slot.
C28_ContainersAgree ==
  fault = "none" =>
    /\ \A e \in DOMAIN m_elementToGroup :
         /\ m_elementToGroup[e] < Len(m_groupToElement)
         /\ e \in m_groupToElement[m_elementToGroup[e] + 1]
    /\ \A g \in 1 .. Len(m_groupToElement) : \A e \in m_groupToElement[g] :
         /\ e \in DOMAIN m_elementToGroup
         /\ m_elementToGroup[e] = g - 1

====
